---- MODULE Spec2Model ----
(***************************************************************************)
(* Model of src/main.py: the approximate matcher of two spreadsheet        *)
(* columns.  preprocess_name (the normaliser), the scorer and selector the *)
(* program calls (fuzzywuzzy's fuzz.token_set_ratio and process.extractOne *)
(* as find_matches configures them) and the batch loop of find_matches.    *)
(*                                                                         *)
(* The library is modelled as fuzzywuzzy 0.18.0 runs it in pure Python:    *)
(* fuzz.ratio over difflib.SequenceMatcher, and the scorer called with     *)
(* full_process=False on strings extractWithoutOrder has already run       *)
(* through utils.full_process(force_ascii=True).                           *)
(*                                                                         *)
(* A Python str is a sequence of code points.  A Python value that may or  *)
(* may not be a str is a record [t, v]: t its type, v its payload.         *)
(***************************************************************************)
EXTENDS Integers, Sequences, FiniteSets

\* ------------------------------------------------------------------ bounds

\* Longest raw string handed to preprocess_name in SpecNormalize.
MaxNameLen == 4
\* Longest processed string handed to the scorer in SpecScore.
MaxScoreLen == 3
\* Most cells of the source column (df1[col1]) and of the target column.
MaxSrc == 2
MaxTgt == 2

\* ------------------------------------------------------- python values

PyStr(s) == [t |-> "str", v |-> s]
PyInt(n) == [t |-> "int", v |-> <<n>>]
NaN == [t |-> "nan", v |-> <<>>]
None == [t |-> "none", v |-> <<>>]

\* ------------------------------------------------------------ characters

\* str.isspace / the regex class \s on the code points below 256.
IsSpace(c) == c \in {9, 10, 11, 12, 13, 28, 29, 30, 31, 32, 133, 160}

IsAsciiLower(c) == c >= 97 /\ c <= 122
IsAsciiUpper(c) == c >= 65 /\ c <= 90
IsAsciiDigit(c) == c >= 48 /\ c <= 57

\* unicodedata.normalize('NFKD', c) of one code point, for the accented
\* Latin-1 letters the model uses; every other code point of the model's
\* alphabets decomposes to itself.
Decompose(c) ==
  CASE c = 193 -> <<65, 769>>      \* A acute
    [] c = 195 -> <<65, 771>>      \* A tilde
    [] c = 199 -> <<67, 807>>      \* C cedilla
    [] c = 201 -> <<69, 769>>      \* E acute
    [] c = 225 -> <<97, 769>>      \* a acute
    [] c = 227 -> <<97, 771>>      \* a tilde
    [] c = 231 -> <<99, 807>>      \* c cedilla
    [] c = 233 -> <<101, 769>>     \* e acute
    [] c = 160 -> <<32>>           \* no-break space (compatibility)
    [] OTHER -> <<c>>

\* unicodedata.combining(c) # 0: the combining diacritical marks.
Combining(c) == c >= 768 /\ c <= 879 /\ c # 847

\* str.lower() of one code point (after decomposition only ASCII capitals
\* of the model's alphabets change).
Lower(c) == IF IsAsciiUpper(c) THEN c + 32 ELSE c

RECURSIVE Concat(_)
Concat(ss) == IF ss = <<>> THEN <<>> ELSE Head(ss) \o Concat(Tail(ss))

\* str.lower()
LowerStr(s) == [k \in 1..Len(s) |-> Lower(s[k])]

RECURSIVE LStrip(_)
LStrip(s) == IF s # <<>> /\ IsSpace(Head(s)) THEN LStrip(Tail(s)) ELSE s

RECURSIVE RStrip(_)
RStrip(s) ==
  IF s # <<>> /\ IsSpace(s[Len(s)]) THEN RStrip(SubSeq(s, 1, Len(s) - 1)) ELSE s

\* str.strip()
Strip(s) == RStrip(LStrip(s))

\* ------------------------------------------------------- preprocess_name

NFKD(s) == Concat([k \in 1..Len(s) |-> Decompose(s[k])])

DropCombining(s) == SelectSeq(s, LAMBDA c : ~Combining(c))

\* re.sub(r'[^a-z0-9\s]', '', name)
KeepAlnumSpace(s) ==
  SelectSeq(s, LAMBDA c : IsAsciiLower(c) \/ IsAsciiDigit(c) \/ IsSpace(c))

preprocess_name(name) ==
  IF name.t # "str" THEN <<>>
  ELSE Strip(KeepAlnumSpace(LowerStr(DropCombining(NFKD(name.v)))))

\* ------------------------------------------ fuzzywuzzy utils.full_process

\* utils.asciidammit on a str: the translation table deletes 128..255.
asciidammit(s) == SelectSeq(s, LAMBDA c : ~(c >= 128 /\ c <= 255))

\* The regex class \w on the code points the model uses.
IsWord(c) == IsAsciiLower(c) \/ IsAsciiUpper(c) \/ IsAsciiDigit(c) \/ c = 95

\* StringProcessor.replace_non_letters_non_numbers_with_whitespace
ReplaceNonWord(s) == [k \in 1..Len(s) |-> IF IsWord(s[k]) THEN s[k] ELSE 32]

\* utils.full_process(s, force_ascii=True)
full_process(s) == Strip(LowerStr(ReplaceNonWord(asciidammit(s))))

\* ------------------------------------------------- difflib / fuzz.ratio

\* Length of the common run of a from i and b from j (0-based, exclusive
\* ends ahi and bhi).
RECURSIVE RunLen(_, _, _, _, _, _)
RunLen(a, b, i, j, ahi, bhi) ==
  IF i < ahi /\ j < bhi /\ a[i + 1] = b[j + 1]
  THEN 1 + RunLen(a, b, i + 1, j + 1, ahi, bhi)
  ELSE 0

\* SequenceMatcher.find_longest_match(alo, ahi, blo, bhi) without junk: the
\* longest common block, of those the one starting earliest in a, and of
\* those the one starting earliest in b.  [i, j, size], size 0 when none.
find_longest_match(a, b, alo, ahi, blo, bhi) ==
  LET Blocks == {[i |-> i, j |-> j, size |-> RunLen(a, b, i, j, ahi, bhi)] :
                   i \in alo..(ahi - 1), j \in blo..(bhi - 1)}
      Better(x, y) == \/ x.size > y.size
                      \/ x.size = y.size /\ x.i < y.i
                      \/ x.size = y.size /\ x.i = y.i /\ x.j < y.j
  IN IF Blocks = {} THEN [i |-> alo, j |-> blo, size |-> 0]
     ELSE CHOOSE x \in Blocks : \A y \in Blocks : y = x \/ Better(x, y)

\* Sum of the sizes of SequenceMatcher.get_matching_blocks(): the longest
\* block, then the same to its left and to its right.
RECURSIVE MatchedLen(_, _, _, _, _, _)
MatchedLen(a, b, alo, ahi, blo, bhi) ==
  LET m == find_longest_match(a, b, alo, ahi, blo, bhi)
  IN IF m.size = 0 THEN 0
     ELSE m.size
          + MatchedLen(a, b, alo, m.i, blo, m.j)
          + MatchedLen(a, b, m.i + m.size, ahi, m.j + m.size, bhi)

\* utils.intr(100 * SequenceMatcher.ratio()) with ratio = 2.0 * M / T:
\* Python's round, half to even, of 200 * M / T.
RoundRatio(M, T) ==
  LET q == (200 * M) \div T
      r == (200 * M) % T
  IN IF 2 * r < T THEN q
     ELSE IF 2 * r > T THEN q + 1
     ELSE IF q % 2 = 0 THEN q ELSE q + 1

\* fuzz.ratio with its decorators check_for_equivalence and
\* check_empty_string (check_for_none never applies to two strs).
ratio(s1, s2) ==
  IF s1 = s2 THEN 100
  ELSE IF Len(s1) = 0 \/ Len(s2) = 0 THEN 0
  ELSE RoundRatio(MatchedLen(s1, s2, 0, Len(s1), 0, Len(s2)), Len(s1) + Len(s2))

\* ------------------------------------------------ fuzz.token_set_ratio

\* str.split(): the maximal runs of non-whitespace, in order.
RECURSIVE Split(_)
Split(s) ==
  LET t == LStrip(s)
      RECURSIVE WordLen(_)
      WordLen(k) == IF k < Len(t) /\ ~IsSpace(t[k + 1]) THEN WordLen(k + 1) ELSE k
      n == WordLen(0)
  IN IF t = <<>> THEN <<>>
     ELSE <<SubSeq(t, 1, n)>> \o Split(SubSeq(t, n + 1, Len(t)))

Range(s) == {s[k] : k \in 1..Len(s)}

\* Python's str ordering: by code point, a proper prefix first.
RECURSIVE StrLess(_, _)
StrLess(x, y) ==
  IF y = <<>> THEN FALSE
  ELSE IF x = <<>> THEN TRUE
  ELSE IF Head(x) # Head(y) THEN Head(x) < Head(y)
  ELSE StrLess(Tail(x), Tail(y))

\* sorted(tokens) of a set of strs
RECURSIVE Sorted(_)
Sorted(S) ==
  IF S = {} THEN <<>>
  ELSE LET least == CHOOSE x \in S : \A y \in S : y = x \/ StrLess(x, y)
       IN <<least>> \o Sorted(S \ {least})

\* " ".join(tokens)
RECURSIVE Join(_)
Join(ts) ==
  IF ts = <<>> THEN <<>>
  ELSE IF Len(ts) = 1 THEN Head(ts)
  ELSE Head(ts) \o <<32>> \o Join(Tail(ts))

Max3(x, y, z) ==
  LET m == IF x >= y THEN x ELSE y IN IF m >= z THEN m ELSE z

\* Mutant of token_set_ratio: the plain ratio of the two strings.
plain_ratio(s1, s2) ==
  IF s1 = s2 THEN 100
  ELSE IF Len(s1) = 0 \/ Len(s2) = 0 THEN 0
  ELSE RoundRatio(MatchedLen(s1, s2, 0, Len(s1), 0, Len(s2)), Len(s1) + Len(s2))

\* fuzz._token_set(s1, s2, partial=False, full_process=False): the scorer
\* as process.extractWithoutOrder calls it, on strings it has already run
\* through full_process.
token_set_ratio(s1, s2) ==
  IF s1 = s2 THEN 100
  ELSE IF Len(s1) = 0 \/ Len(s2) = 0 THEN 0
  ELSE LET tokens1 == Range(Split(s1))
           tokens2 == Range(Split(s2))
           sorted_sect == Join(Sorted(tokens1 \cap tokens2))
           sorted_1to2 == Join(Sorted(tokens1 \ tokens2))
           sorted_2to1 == Join(Sorted(tokens2 \ tokens1))
           sect == Strip(sorted_sect)
           combined_1to2 == Strip(sorted_sect \o <<32>> \o sorted_1to2)
           combined_2to1 == Strip(sorted_sect \o <<32>> \o sorted_2to1)
       IN Max3(ratio(sect, combined_1to2),
               ratio(sect, combined_2to1),
               ratio(combined_1to2, combined_2to1))

\* --------------------------------------------------- process.extractOne

\* What extractWithoutOrder hands the scorer for one raw str: the
\* processor (preprocess_name), then full_process(force_ascii=True).
Processed(raw) == full_process(preprocess_name(PyStr(raw)))

\* Mutant of MaxByScore: a later item with an equal key replaces the best.
RECURSIVE MaxByScoreLast(_, _)
MaxByScoreLast(best, rest) ==
  IF rest = <<>> THEN best
  ELSE MaxByScoreLast(IF Head(rest).score >= best.score THEN Head(rest) ELSE best,
                      Tail(rest))

\* max(best_list, key=lambda i: i[1]): the first item is the best so far,
\* and a later one replaces it only with a strictly greater key.
RECURSIVE MaxByScore(_, _)
MaxByScore(best, rest) ==
  IF rest = <<>> THEN best
  ELSE MaxByScore(IF Head(rest).score > best.score THEN Head(rest) ELSE best,
                  Tail(rest))

\* extractOne's None.
NoMatch == [t |-> "none", choice |-> <<>>, score |-> 0]

\* process.extractOne(query, choices, processor=preprocess_name,
\* scorer=fuzz.token_set_ratio): None for no choices (the generator ends at
\* once and max raises ValueError), else the (choice, score) of the best.
extractOne(query, choices) ==
  IF Len(choices) = 0 THEN NoMatch
  ELSE LET processed_query == Processed(query)
           best_list == [k \in 1..Len(choices) |->
                           [t |-> "tuple", choice |-> choices[k],
                            score |-> token_set_ratio(processed_query,
                                                      Processed(choices[k]))]]
       IN MaxByScore(Head(best_list), Tail(best_list))

\* ------------------------------------------------------------- the state

VARIABLES
  pc,            \* where the modelled call stands
  df1, df2,      \* find_matches: the two selected columns, df1[col1], df2[col2]
  threshold,     \* find_matches: threshold
  source_list,   \* find_matches: source_list
  target_list,   \* find_matches: target_list
  total_items,   \* find_matches: total_items
  i,             \* find_matches: items of source_list the loop has finished
  best_match,    \* find_matches: best_match of the last extractOne call
  results,       \* find_matches: results
  progress_bar,  \* value the progress bar shows, <<numerator, denominator>>
  reports,       \* every progress_bar.progress(...) call so far, in order
  error,         \* the exception that ended the call, "none" while none has
  name,          \* preprocess_name: its argument
  canonical,     \* preprocess_name: its return value
  p1, p2,        \* the scorer: its two processed strings
  set_score      \* the scorer: its return value

vars == <<pc, df1, df2, threshold, source_list, target_list, total_items, i,
          best_match, results, progress_bar, reports, error, name, canonical,
          p1, p2, set_score>>

batch_vars == <<df1, df2, threshold, source_list, target_list, total_items, i,
                best_match, results, progress_bar, reports, error>>

\* Every str over alphabet of length at most n.
RECURSIVE Strings(_, _)
Strings(alphabet, n) ==
  IF n = 0 THEN {<<>>}
  ELSE LET shorter == Strings(alphabet, n - 1)
       IN shorter \cup {Append(s, c) : s \in shorter, c \in alphabet}

\* Every column of at most n cells.
Columns(cells, n) == Strings(cells, n)

\* ---------------------------------------------------------- find_matches

\* Mutant of dropna: the missing cells are kept.
dropnaKeepsAll(col) == col

\* Series.dropna(): the cells that are not missing, in order.
dropna(col) == SelectSeq(col, LAMBDA x : x.t \notin {"nan", "none"})

\* str(n) of a non-negative int
RECURSIVE IntStr(_)
IntStr(n) == IF n < 10 THEN <<48 + n>> ELSE IntStr(n \div 10) \o <<48 + (n % 10)>>

\* Series.astype(str).tolist(): str(x) of every cell.
astype_str(col) ==
  [k \in 1..Len(col) |->
     CASE col[k].t = "str" -> col[k].v
       [] col[k].t = "int" -> IntStr(col[k].v[1])
       [] col[k].t = "nan" -> <<110, 97, 110>>       \* str(nan) is "nan"
       [] OTHER -> <<78, 111, 110, 101>>]            \* str(None) is "None"

\* Mutant of Unpack: no match is unpacked to an empty str, not to None.
UnpackEmptyStr(bm) ==
  IF bm.t = "none" THEN [match_name |-> PyStr(<<>>), score |-> 0]
  ELSE [match_name |-> PyStr(bm.choice), score |-> bm.score]

\* Line 39: match_name, score = (best_match[0], best_match[1]) if best_match
\* else (None, 0)
Unpack(bm) ==
  IF bm.t = "none" THEN [match_name |-> None, score |-> 0]
  ELSE [match_name |-> PyStr(bm.choice), score |-> bm.score]

\* Mutant of Keeps: a strict comparison.
KeepsStrict(score, thr) == score > thr

\* Line 41: if score >= threshold
Keeps(score, thr) == score >= thr

\* Lines 42-46: the row appended for a kept item.
Row(query_name, m) ==
  [query_name |-> query_name, match_name |-> m.match_name, score |-> m.score]

\* Mutant of Appended: the new row goes to the front.
Prepended(rs, row) == <<row>> \o rs

\* Line 42: results.append(row)
Appended(rs, row) == Append(rs, row)

\* Mutant of ProgressValue: i / total_items.
ProgressValueFromZero(k, total) == <<k, total>>

\* Line 47: (i + 1) / total_items
ProgressValue(k, total) == <<k + 1, total>>

\* Lines 26-30: the two lists, the empty results and the progress bar at 0.
Enter ==
  /\ pc = "call"
  /\ source_list' = astype_str(dropna(df1))
  /\ target_list' = astype_str(dropna(df2))
  /\ results' = <<>>
  /\ progress_bar' = <<0, 1>>
  /\ total_items' = Len(astype_str(dropna(df1)))
  /\ i' = 0
  /\ pc' = "for"
  /\ UNCHANGED <<df1, df2, threshold, best_match, reports, error,
                 name, canonical, p1, p2, set_score>>

\* Lines 32-46: the next item's best match and the decision to keep it.
Match ==
  /\ pc = "for"
  /\ i < Len(source_list)
  /\ LET query_name == source_list[i + 1]
         bm == extractOne(query_name, target_list)
         m == Unpack(bm)
     IN /\ best_match' = bm
        /\ results' = IF Keeps(m.score, threshold)
                      THEN Appended(results, Row(query_name, m))
                      ELSE results
  /\ pc' = "progress"
  /\ UNCHANGED <<df1, df2, threshold, source_list, target_list, total_items, i,
                 progress_bar, reports, error, name, canonical, p1, p2, set_score>>

\* Line 47: the progress report that ends the iteration.
Progress ==
  /\ pc = "progress"
  /\ IF total_items = 0
     THEN /\ error' = "ZeroDivisionError"
          /\ pc' = "raised"
          /\ UNCHANGED <<progress_bar, reports, i>>
     ELSE /\ progress_bar' = ProgressValue(i, total_items)
          /\ reports' = Append(reports, ProgressValue(i, total_items))
          /\ i' = i + 1
          /\ pc' = "for"
          /\ error' = error
  /\ UNCHANGED <<df1, df2, threshold, source_list, target_list, total_items,
                 best_match, results, name, canonical, p1, p2, set_score>>

\* Line 49: the loop is over and the results are returned.
Return ==
  /\ pc = "for"
  /\ i >= Len(source_list)
  /\ pc' = "done"
  /\ UNCHANGED <<batch_vars, name, canonical, p1, p2, set_score>>

\* ------------------------------------------------- the specifications

\* The cells of the two columns the model draws from: "An", "ANA", "-" and
\* a missing cell; "Ana", "ANA", "!" and a missing cell.
SourceCells == {PyStr(<<65, 110>>), PyStr(<<65, 78, 65>>), PyStr(<<45>>), NaN}
TargetCells == {PyStr(<<65, 110, 97>>), PyStr(<<65, 78, 65>>), PyStr(<<33>>), NaN}

\* Lines 108-112: the slider's range and default.
SliderMin == 0
SliderMax == 100
SliderDefault == 80

\* The thresholds the model draws from the slider.
SliderValues == {SliderMin, SliderDefault, SliderMax}

\* Thresholds a direct caller of find_matches may pass (threshold: int).
DirectValues == SliderValues \cup {SliderMin - 1, SliderMax + 1}

IdleFunctions ==
  /\ name = None
  /\ canonical = <<>>
  /\ p1 = <<>>
  /\ p2 = <<>>
  /\ set_score = 0

IdleBatch ==
  /\ df1 = <<>>
  /\ df2 = <<>>
  /\ threshold = SliderDefault
  /\ source_list = <<>>
  /\ target_list = <<>>
  /\ total_items = 0
  /\ i = 0
  /\ best_match = NoMatch
  /\ results = <<>>
  /\ progress_bar = <<0, 1>>
  /\ reports = <<>>
  /\ error = "none"

\* Line 119: find_matches is called with the two columns and the slider's
\* value.
InitWith(thresholds) ==
  /\ pc = "call"
  /\ df1 \in Columns(SourceCells, MaxSrc)
  /\ df2 \in Columns(TargetCells, MaxTgt)
  /\ threshold \in thresholds
  /\ source_list = <<>>
  /\ target_list = <<>>
  /\ total_items = 0
  /\ i = 0
  /\ best_match = NoMatch
  /\ results = <<>>
  /\ progress_bar = <<0, 1>>
  /\ reports = <<>>
  /\ error = "none"
  /\ IdleFunctions

Init == InitWith(SliderValues)

Next == Enter \/ Match \/ Progress \/ Return

Spec == Init /\ [][Next]_vars

\* find_matches called directly, with any int as its threshold.
InitDirect == InitWith(DirectValues)

SpecDirect == InitDirect /\ [][Next]_vars

\* preprocess_name on its own, over every short str of NameAlphabet
\* ("a", "B", e acute, "1", space, tab, "-") and over values that are no str.
NameAlphabet == {97, 66, 233, 49, 32, 9, 45}

NameInputs ==
  {PyStr(s) : s \in Strings(NameAlphabet, MaxNameLen)} \cup {NaN, None, PyInt(7)}

InitNormalize ==
  /\ pc = "normalize"
  /\ name \in NameInputs
  /\ canonical = <<>>
  /\ p1 = <<>>
  /\ p2 = <<>>
  /\ set_score = 0
  /\ IdleBatch

Normalize ==
  /\ pc = "normalize"
  /\ canonical' = preprocess_name(name)
  /\ pc' = "normalized"
  /\ UNCHANGED <<batch_vars, name, p1, p2, set_score>>

SpecNormalize == InitNormalize /\ [][Normalize]_vars

\* The scorer on its own, over every pair of short processed strings of
\* "a", "b" and space: what full_process returns has no space at either end.
ScoreAlphabet == {97, 98, 32}

ScoreInputs == {s \in Strings(ScoreAlphabet, MaxScoreLen) : Strip(s) = s}

InitScore ==
  /\ pc = "score"
  /\ p1 \in ScoreInputs
  /\ p2 \in ScoreInputs
  /\ set_score = 0
  /\ name = None
  /\ canonical = <<>>
  /\ IdleBatch

Score ==
  /\ pc = "score"
  /\ set_score' = token_set_ratio(p1, p2)
  /\ pc' = "scored"
  /\ UNCHANGED <<batch_vars, name, canonical, p1, p2>>

SpecScore == InitScore /\ [][Score]_vars

\* ================================================================ claims

\* Items of source_list whose keep-or-drop decision has been taken.
Decided == IF pc = "progress" THEN i + 1 ELSE i

InBatch == pc \in {"for", "progress", "done", "raised"}

\* What the selector returns for the k-th source item against targets tl.
Selected(k, tl) == Unpack(extractOne(source_list[k], tl))

\* The source items among the first n whose selector score reaches the
\* threshold.
KeptIdx(n, tl) == {k \in 1..n : Selected(k, tl).score >= threshold}

\* ---- C1 ----------------------------------------------------------------
\* C1: at every point of the batch loop and at return, results holds one
\* row for exactly the decided source items whose select_best score is >=
\* threshold (a score equal to the threshold included), at most one row per
\* item, in source order, each row carrying the raw source string, the raw
\* matched target and the selector's score unchanged.
C1_KeptIffScoreReachesThreshold ==
  InBatch =>
    LET kept == KeptIdx(Decided, target_list)
    IN /\ Len(results) = Cardinality(kept)
       /\ \A k \in kept :
            LET sel == Selected(k, target_list)
            IN results[Cardinality({k2 \in kept : k2 <= k})] =
                 [query_name |-> source_list[k],
                  match_name |-> sel.match_name,
                  score |-> sel.score]

\* A finished run that kept an item scoring exactly the threshold (neither 0
\* nor 100) and dropped another.
C1_Witness ==
  /\ pc = "done"
  /\ threshold = SliderDefault
  /\ \E j \in 1..Len(results) : results[j].score = threshold
  /\ Len(results) < Len(source_list)

\* ---- C2 ----------------------------------------------------------------
\* The score of one candidate for one query, both normalised first.
ChoiceScore(query, choice) == token_set_ratio(Processed(query), Processed(choice))

\* The scores of all candidates for the item Match has just handled.
CandidateScores == [j \in 1..Len(target_list) |->
                      ChoiceScore(source_list[i + 1], target_list[j])]

\* C2: over a non-empty candidate list, select_best returns the maximum of
\* the candidates' scores (query and candidate normalised before scoring)
\* and the earliest candidate, in input order, that reaches it.
C2_MaxScoreEarliestCandidate ==
  (pc = "progress" /\ target_list # <<>>) =>
    /\ best_match.t = "tuple"
    /\ \A j \in 1..Len(target_list) : CandidateScores[j] <= best_match.score
    /\ \E j \in 1..Len(target_list) :
         /\ CandidateScores[j] = best_match.score
         /\ \A j2 \in 1..(j - 1) : CandidateScores[j2] < best_match.score
         /\ target_list[j] = best_match.choice

\* Two different candidates tie for the maximum and the first one is
\* returned.
C2_Witness ==
  /\ pc = "progress"
  /\ Len(target_list) = 2
  /\ target_list[1] # target_list[2]
  /\ CandidateScores[1] = CandidateScores[2]
  /\ CandidateScores[1] > 0
  /\ best_match.choice = target_list[1]

\* ---- C3 ----------------------------------------------------------------
RECURSIVE IsSubseq(_, _)
IsSubseq(x, y) ==
  IF x = <<>> THEN TRUE
  ELSE IF y = <<>> THEN FALSE
  ELSE IF Head(x) = Head(y) THEN IsSubseq(Tail(x), Tail(y))
  ELSE IsSubseq(x, Tail(y))

\* Every ordering of the sequence s.
RECURSIVE Perms(_)
Perms(s) ==
  IF s = <<>> THEN {<<>>}
  ELSE UNION {{<<s[k]>> \o r :
                 r \in Perms(SubSeq(s, 1, k - 1) \o SubSeq(s, k + 1, Len(s)))} :
              k \in 1..Len(s)}

Queries(rs) == [j \in 1..Len(rs) |-> rs[j].query_name]

\* C3: at every point of the batch loop and at return the query fields of
\* results are a subsequence of source_list, in source order, and the
\* returned results name the source items that would have been kept, in
\* that order, with the targets in any other order.
C3_SourceOrderAnyTargetOrder ==
  InBatch =>
    /\ IsSubseq(Queries(results), source_list)
    /\ pc = "done" =>
         \A tl \in Perms(target_list) :
           LET kept == KeptIdx(Len(source_list), tl)
           IN /\ Len(results) = Cardinality(kept)
              /\ \A k \in kept :
                   results[Cardinality({k2 \in kept : k2 <= k})].query_name
                     = source_list[k]

\* A finished run that kept two different source items, with two different
\* targets that can be swapped.
C3_Witness ==
  /\ pc = "done"
  /\ Len(results) = 2
  /\ results[1].query_name # results[2].query_name
  /\ Len(target_list) = 2
  /\ target_list[1] # target_list[2]

\* ---- C4 ----------------------------------------------------------------
\* C4: a call with a threshold outside [0, 100] is rejected: it never
\* enters the loop and never returns a result sequence.
C4_OutOfRangeRejected ==
  (threshold < SliderMin \/ threshold > SliderMax) =>
    pc \notin {"for", "progress", "done"}

\* ---- C5 ----------------------------------------------------------------
AllMissing(col) == \A k \in 1..Len(col) : col[k].t \in {"nan", "none"}

\* C5: with no source item (an empty column, or one whose cells are all
\* missing) the call raises nothing, reports no progress, can return at
\* once and returns an empty result sequence, whatever the targets and the
\* threshold.
C5_EmptySourcesEmptyResult ==
  (InBatch /\ AllMissing(df1)) =>
    /\ source_list = <<>>
    /\ results = <<>>
    /\ reports = <<>>
    /\ error = "none"
    /\ pc \in {"for", "done"}
    /\ pc = "for" => ENABLED Return

\* A finished run over a column of missing cells only, with targets.
C5_Witness ==
  /\ pc = "done"
  /\ df1 # <<>>
  /\ AllMissing(df1)
  /\ target_list # <<>>
  /\ threshold = SliderMin

\* ---- C6 ----------------------------------------------------------------
\* C6: with no candidate select_best returns None, which is unpacked to
\* (None, 0), and nothing is raised; the call then keeps every source item,
\* with no match and score 0, when the threshold is 0, and none otherwise.
C6_EmptyTargetsNoMatch ==
  (InBatch /\ target_list = <<>>) =>
    /\ error = "none"
    /\ pc # "raised"
    /\ pc = "progress" => best_match.t = "none"
    /\ results = IF threshold = 0
                 THEN [k \in 1..Decided |->
                         [query_name |-> source_list[k], match_name |-> None,
                          score |-> 0]]
                 ELSE <<>>

\* A finished run without targets that kept its two source items at
\* threshold 0.
C6_Witness ==
  /\ pc = "done"
  /\ target_list = <<>>
  /\ threshold = 0
  /\ Len(results) = 2
  /\ results[1].match_name = None

\* ---- C7 ----------------------------------------------------------------
\* The CanonicalLabel invariant: lowercase ASCII letters, ASCII digits and
\* single spaces between words only.
IsCanonicalLabel(s) ==
  /\ \A k \in 1..Len(s) : IsAsciiLower(s[k]) \/ IsAsciiDigit(s[k]) \/ s[k] = 32
  /\ s # <<>> => ~IsSpace(s[1]) /\ ~IsSpace(s[Len(s)])
  /\ \A k \in 1..(Len(s) - 1) : ~(IsSpace(s[k]) /\ IsSpace(s[k + 1]))

\* C7: whatever str preprocess_name is given, what it returns is a
\* CanonicalLabel.
C7_OutputIsCanonical ==
  pc = "normalized" => IsCanonicalLabel(canonical)

\* ---- C8 ----------------------------------------------------------------
\* C8: a query whose processed form is empty and a candidate whose
\* processed form is empty score 0, so select_best never returns a blank
\* candidate for a blank query with a score above 0.
C8_BlankToBlankScoresZero ==
  (/\ pc = "progress"
   /\ best_match.t = "tuple"
   /\ Processed(source_list[i + 1]) = <<>>
   /\ Processed(best_match.choice) = <<>>) => best_match.score = 0

\* ---- C9 ----------------------------------------------------------------
TokenSet(s) == Range(Split(s))

\* Every string made of the words of s in some order, single-spaced.
WordPerms(s) == {Join(ws) : ws \in Perms(Split(s))}

\* C9: two non-empty processed strings with the same set of words score
\* 100, and reordering the words of either string never changes the score.
C9_WordOrderIndependent ==
  pc = "scored" =>
    /\ (p1 # <<>> /\ p2 # <<>> /\ TokenSet(p1) = TokenSet(p2)) => set_score = 100
    /\ \A q1 \in WordPerms(p1) : \A q2 \in WordPerms(p2) :
         token_set_ratio(q1, q2) = set_score

\* Two different strings with the same two words, scored 100.
C9_Witness ==
  /\ pc = "scored"
  /\ p1 # p2
  /\ Cardinality(TokenSet(p1)) = 2
  /\ TokenSet(p1) = TokenSet(p2)
  /\ set_score = 100

\* ---- C10 ---------------------------------------------------------------
\* What holds of the progress reports in every state.
C10_ReportsSoFar ==
  InBatch =>
    /\ Len(reports) = i
    /\ Decided >= Len(reports)
    /\ \A k \in 1..Len(reports) :
         /\ reports[k] = <<k, total_items>>
         /\ 0 < reports[k][1]
         /\ reports[k][1] <= reports[k][2]
    /\ \A k \in 1..(Len(reports) - 1) :
         reports[k][1] * reports[k + 1][2] < reports[k + 1][1] * reports[k][2]
    /\ (pc = "done" /\ Len(source_list) >= 1) =>
         /\ Len(reports) = Len(source_list)
         /\ reports[Len(reports)][1] = reports[Len(reports)][2]

\* C10: over n >= 1 source items progress is reported once per item, after
\* the item's keep-or-drop decision, as (index + 1) / n: the values rise
\* strictly, lie in (0, 1], the last is 1 and is reported before the
\* return; and a report leaves the results as they are.
C10_ProgressPerItem ==
  /\ []C10_ReportsSoFar
  /\ [][reports' # reports =>
          /\ pc = "progress"
          /\ Len(reports') = Len(reports) + 1
          /\ Decided = Len(reports')
          /\ results' = results]_vars

\* A finished run over two source items, with its two reports.
C10_Witness ==
  /\ pc = "done"
  /\ Len(reports) = 2
  /\ reports[1] = <<1, 2>>
  /\ reports[2] = <<2, 2>>

====
